---------------------------- MODULE Spec2Model ----------------------------
(***************************************************************************)
(* A model of the document viewer (PDFViewer.tsx) and of the chat panel    *)
(* (App.tsx).                                                              *)
(*                                                                         *)
(* Strings are sequences of characters.  A character is written as a TLA+  *)
(* string: "a" and "A" are the Latin letter in its two cases, "SIGMA" is   *)
(* U+03A3 GREEK CAPITAL LETTER SIGMA, "sigma" is U+03C3 and "fsigma" is    *)
(* U+03C2 GREEK SMALL LETTER FINAL SIGMA.                                  *)
(***************************************************************************)
EXTENDS Integers, Sequences, FiniteSets, TLC

VARIABLES
    doc,          \* the text nodes of the document's text layers, in scan order
    numPages,     \* PDFViewer: the state numPages
    scale,        \* PDFViewer: the state scale, a double
    textLayers,   \* the pages whose text layer is in the DOM
    highlighted,  \* the elements that carry the class 'highlighted-text'
    lastCall,     \* the last call of highlightText: its argument and its outcome
    zoomLog       \* the zoom actions since the viewer was created, in order

VARIABLES
    messages,     \* App: the transcript
    inputMessage, \* App: the text of the input field
    darkMode,     \* App: the theme
    currentPage,  \* App (the revision in unnamed/part_001): the state currentPage
    timers,       \* the replies setTimeout has scheduled, by the time they are due
    now,          \* Date.now()
    lastClick     \* the last activation of a citation marker and what it did

VARIABLE
    lastEvent     \* the handler that ran last, with the scale and the highlighted
                  \* elements it started from

viewerVars == <<doc, numPages, scale, textLayers, highlighted, lastCall, zoomLog>>

appVars == <<messages, inputMessage, darkMode, currentPage, timers, now, lastClick>>

vars == <<viewerVars, appVars, lastEvent>>

-----------------------------------------------------------------------------
(* Bounds *)

\* the longest search text
MaxLen == 2
\* the most characters the text nodes of one document hold together
MaxDocLen == 2
\* the most zoom actions zoomLog records
MaxZoomSteps == 10
\* the most messages the user sends
MaxSends == 2
\* the longest content formatMessageContent is applied to
MaxContentLen == 6

-----------------------------------------------------------------------------
(* Strings *)

\* the characters of the texts that are searched and searched for
Chars == {"a", "A", "SIGMA"}

RECURSIVE StringsOfLen(_)
StringsOfLen(n) ==
    IF n = 0 THEN {<<>>}
    ELSE {Append(s, c) : s \in StringsOfLen(n - 1), c \in Chars}

StringsUpTo(n) == UNION {StringsOfLen(k) : k \in 0..n}

UpperCase ==
    << "A", "B", "C", "D", "E", "F", "G", "H", "I", "J", "K", "L", "M",
       "N", "O", "P", "Q", "R", "S", "T", "U", "V", "W", "X", "Y", "Z" >>

LowerCase ==
    << "a", "b", "c", "d", "e", "f", "g", "h", "i", "j", "k", "l", "m",
       "n", "o", "p", "q", "r", "s", "t", "u", "v", "w", "x", "y", "z" >>

Range(f) == {f[i] : i \in DOMAIN f}

UpperCaseLetters == Range(UpperCase)

LowerCaseOf == [c \in UpperCaseLetters |->
                   LowerCase[CHOOSE i \in DOMAIN UpperCase : UpperCase[i] = c]]

\* the lower case form of a letter other than SIGMA
LowerOf(c) == IF c \in UpperCaseLetters THEN LowerCaseOf[c] ELSE c

\* a cased letter (Unicode property Cased)
CasedLetters ==
    Range(UpperCase) \cup Range(LowerCase) \cup {"SIGMA", "sigma", "fsigma"}

Cased(c) == c \in CasedLetters

\* a character case conversion looks through (Unicode property Case_Ignorable)
CaseIgnorable(c) == c \in {".", "RSQUO"}

\* a cased letter precedes position i, case-ignorable characters aside
RECURSIVE CasedBefore(_, _)
CasedBefore(s, i) ==
    IF i <= 1 THEN FALSE
    ELSE IF CaseIgnorable(s[i - 1]) THEN CasedBefore(s, i - 1)
    ELSE Cased(s[i - 1])

\* a cased letter follows position i, case-ignorable characters aside
RECURSIVE CasedAfter(_, _)
CasedAfter(s, i) ==
    IF i >= Len(s) THEN FALSE
    ELSE IF CaseIgnorable(s[i + 1]) THEN CasedAfter(s, i + 1)
    ELSE Cased(s[i + 1])

\* SpecialCasing.txt, condition Final_Sigma
FinalSigma(s, i) == CasedBefore(s, i) /\ ~CasedAfter(s, i)

\* String.prototype.toLowerCase: the Unicode default case conversion,
\* SpecialCasing.txt's context-sensitive mapping of SIGMA included
toLowerCase(s) ==
    [i \in 1..Len(s) |->
        IF s[i] = "SIGMA"
        THEN (IF FinalSigma(s, i) THEN "fsigma" ELSE "sigma")
        ELSE LowerOf(s[i])]

\* String.prototype.includes
includes(hay, needle) ==
    \E i \in 0..(Len(hay) - Len(needle)) :
        SubSeq(hay, i + 1, i + Len(needle)) = needle


-----------------------------------------------------------------------------
(* The rendered document: PDFViewer.tsx, the text layers of the pages *)

\* An element is <<page, k>>: <<p, 0>> is the text layer of page p (the element
\* of class react-pdf__Page__textContent), <<p, k>> with k > 0 a span inside it.
NoElement == <<0, 0>>

\* The parent elements of a document's text nodes, in scan order (page order,
\* then document order): the shapes of text layer the model renders.
Layouts ==
    { << <<1, 1>>, <<1, 2>> >>,            \* two spans of one page
      << <<1, 1>>, <<1, 1>> >>,            \* two text nodes in one span
      << <<1, 0>>, <<1, 1>> >>,            \* a text node directly in the layer
      << <<1, 1>>, <<2, 1>> >> }           \* one span on each of two pages

\* the tuples of n texts that hold at most budget characters together
RECURSIVE TextTuples(_, _)
TextTuples(n, budget) ==
    IF n = 0 THEN {<<>>}
    ELSE UNION { { <<s>> \o rest : rest \in TextTuples(n - 1, budget - Len(s)) } :
                 s \in StringsUpTo(budget) }

Documents ==
    UNION { { [i \in 1..Len(layout) |->
                  [parentNode |-> layout[i], nodeValue |-> texts[i]]] :
              texts \in TextTuples(Len(layout), MaxDocLen) } :
            layout \in Layouts }

Pages(d) == {d[i].parentNode[1] : i \in 1..Len(d)}

\* the number of pages of the document: the text nodes are in page order
NumPagesOf(d) == IF d = <<>> THEN 1 ELSE d[Len(d)].parentNode[1]

\* the text nodes a TreeWalker over the text layers in the DOM visits, in order
TextNodes == SelectSeq(doc, LAMBDA node : node.parentNode[1] \in textLayers)

-----------------------------------------------------------------------------
(* PDFViewer.tsx, highlightText *)

\* an argument that is absent (undefined)
Absent == <<"undefined">>

\* the texts highlightText is called with: the empty one and the absent one too
SearchTexts == StringsUpTo(MaxLen) \cup {Absent}

\* (variant: the empty text is searched for)
FalsyAbsentOnly(text) == text = Absent

\* !text
Falsy(text) == text = <<>> \/ text = Absent

NoCall ==
    [op |-> "none", text |-> <<>>, found |-> FALSE, scrolledTo |-> NoElement,
     before |-> {}]

\* (variant: the marks of the call before are kept)
RemoveNothing(hl) == hl

\* lines 35-38: the class is removed from every element that carries it
RemovePreviousHighlights(hl) == {}

\* (variant: the text of the node is looked for in the text searched)
NodeMatchesSwapped(node, searchText) ==
    /\ node.nodeValue # <<>>
    /\ includes(searchText, toLowerCase(node.nodeValue))

\* line 55: node.nodeValue && node.nodeValue.toLowerCase().includes(searchText)
NodeMatches(node, searchText) ==
    /\ node.nodeValue # <<>>
    /\ includes(toLowerCase(node.nodeValue), searchText)

\* (variant: the match kept for scrolling is the last one)
VisitKeepsLast(node, searchText, st) ==
    IF NodeMatches(node, searchText)
    THEN LET parent == node.parentNode IN
         IF parent \notin st.hl
         THEN [found |-> TRUE, hl |-> st.hl \cup {parent}, firstMatch |-> parent]
         ELSE [st EXCEPT !.found = TRUE]
    ELSE st

\* lines 54-68: one step of the walk; st is [found, hl, firstMatch]
Visit(node, searchText, st) ==
    IF NodeMatches(node, searchText)
    THEN LET parent == node.parentNode IN
         IF parent \notin st.hl
         THEN [found |-> TRUE,
               hl |-> st.hl \cup {parent},
               firstMatch |-> IF st.firstMatch = NoElement THEN parent
                              ELSE st.firstMatch]
         ELSE [st EXCEPT !.found = TRUE]
    ELSE st

\* lines 46-69: the walk over the text nodes of every text layer
RECURSIVE Walk(_, _, _, _)
Walk(nodes, i, searchText, st) ==
    IF i > Len(nodes) THEN st
    ELSE Walk(nodes, i + 1, searchText, Visit(nodes[i], searchText, st))

\* lines 31-80: what a call leaves behind, [found, hl, scrolledTo]
HighlightResult(text) ==
    IF Falsy(text)
    THEN [found |-> FALSE, hl |-> highlighted, scrolledTo |-> NoElement]
    ELSE LET st == Walk(TextNodes, 1, toLowerCase(text),
                        [found |-> FALSE,
                         hl |-> RemovePreviousHighlights(highlighted),
                         firstMatch |-> NoElement])
         IN [found |-> st.found, hl |-> st.hl, scrolledTo |-> st.firstMatch]

\* what lastEvent keeps of a handler as it starts
Event(kind) == [kind |-> kind, scale |-> scale, highlighted |-> highlighted]

highlightText(text) ==
    LET r == HighlightResult(text) IN
    /\ highlighted' = r.hl
    /\ lastEvent' = Event("highlightText")
    /\ lastCall' = [op |-> "highlightText", text |-> text, found |-> r.found,
                    scrolledTo |-> r.scrolledTo, before |-> highlighted]
    /\ UNCHANGED <<doc, numPages, scale, textLayers, zoomLog>>

-----------------------------------------------------------------------------
(* Doubles.  The scale is an IEEE 754 binary64 number.  A double between 1/4 *)
(* and 4 is a whole number of units of 2^-56, written [hi, lo] for           *)
(* hi * 2^28 + lo so that no part exceeds 31 bits.                           *)

Limb == 2^28

Dbl(h, l) == [hi |-> h, lo |-> l]

\* the literals of PDFViewer.tsx: 0.1 is the double 0x1.999999999999ap-4
Tenth == Dbl(26843545, 161061274)
One == Dbl(Limb, 0)
Two == Dbl(2 * Limb, 0)
Half == Dbl(Limb \div 2, 0)

Less(x, y) == x.hi < y.hi \/ (x.hi = y.hi /\ x.lo < y.lo)

\* the exact sum and difference, in units of 2^-56
ExactAdd(x, y) ==
    LET l == x.lo + y.lo IN Dbl(x.hi + y.hi + (l \div Limb), l % Limb)

ExactSub(x, y) ==
    LET l == x.lo - y.lo IN
    IF l >= 0 THEN Dbl(x.hi - y.hi, l) ELSE Dbl(x.hi - y.hi - 1, l + Limb)

\* the distance between the doubles of the binade of v, in units of 2^-56
Ulp(v) ==
    CASE v.hi < Limb \div 2 -> 4     \* [1/4, 1/2)
      [] v.hi < Limb -> 8            \* [1/2, 1)
      [] v.hi < 2 * Limb -> 16       \* [1, 2)
      [] OTHER -> 32                 \* [2, 4)

\* round to nearest, ties to even: the result of a binary64 operation
RoundToDouble(v) ==
    LET u == Ulp(v)
        q == v.lo \div u
        r == v.lo % u
        up == (2 * r > u) \/ (2 * r = u /\ q % 2 = 1)
        l == (IF up THEN q + 1 ELSE q) * u
    IN IF l = Limb THEN Dbl(v.hi + 1, 0) ELSE Dbl(v.hi, l)

\* x + y and x - y of JavaScript numbers
FAdd(x, y) == RoundToDouble(ExactAdd(x, y))
FSub(x, y) == RoundToDouble(ExactSub(x, y))

MathMin(x, y) == IF Less(y, x) THEN y ELSE x
MathMax(x, y) == IF Less(x, y) THEN y ELSE x

-----------------------------------------------------------------------------
(* PDFViewer.tsx, the zoom controls and the rendering of the pages *)

\* zoomLog when the zoom actions are not, or no longer, recorded
NoEvent == [kind |-> "none", scale |-> One, highlighted |-> {}]

Unrecorded == <<"unrecorded">>

Record(log, action) ==
    IF log = Unrecorded \/ Len(log) >= MaxZoomSteps THEN Unrecorded
    ELSE Append(log, action)

\* (variant: a step of 0.2)
zoomInScaleTwoTenths(prev) == MathMin(FAdd(prev, FAdd(Tenth, Tenth)), Two)

\* line 88: prev => Math.min(prev + 0.1, 2.0)
zoomInScale(prev) == MathMin(FAdd(prev, Tenth), Two)

\* (variant: the minimum is 0.1)
zoomOutScaleFloorTenth(prev) == MathMax(FSub(prev, Tenth), Tenth)

\* line 89: prev => Math.max(prev - 0.1, 0.5)
zoomOutScale(prev) == MathMax(FSub(prev, Tenth), Half)

\* (variant: the pages are kept when the scale changes)
SetScaleKeepsLayers(next, action) ==
    /\ scale' = next
    /\ zoomLog' = Record(zoomLog, action)
    /\ lastEvent' = Event(action)
    /\ UNCHANGED <<doc, numPages, textLayers, highlighted, lastCall>>

\* lines 141-156: every Page is rendered at the scale; a Page whose scale
\* changes renders its text layer anew, and the new layer holds its text only
\* once RenderTextLayer has run.  A state set to the value it has re-renders
\* nothing.
SetScale(next, action) ==
    /\ scale' = next
    /\ zoomLog' = Record(zoomLog, action)
    /\ IF next = scale
       THEN UNCHANGED <<textLayers, highlighted>>
       ELSE textLayers' = {} /\ highlighted' = {}
    /\ lastEvent' = Event(action)
    /\ UNCHANGED <<doc, numPages, lastCall>>

zoomIn == SetScale(zoomInScale(scale), "in")

zoomOut == SetScale(zoomOutScale(scale), "out")

\* lines 83-86: the document is loaded and its pages are counted
onDocumentLoadSuccess ==
    /\ numPages = 0
    /\ numPages' = NumPagesOf(doc)
    /\ lastEvent' = Event("load")
    /\ UNCHANGED <<doc, scale, textLayers, highlighted, lastCall, zoomLog>>

\* lines 141-156, renderTextLayer={true}: the text layer of a rendered page
\* receives its text
RenderTextLayer(p) ==
    /\ p \in 1..numPages
    /\ p \notin textLayers
    /\ textLayers' = textLayers \cup {p}
    /\ lastEvent' = Event("render")
    /\ UNCHANGED <<doc, numPages, scale, highlighted, lastCall, zoomLog>>

-----------------------------------------------------------------------------
(* App.tsx: the sample transcript *)

\* the instant the page is loaded, in milliseconds: Date.now() of the present
\* era, far above the ids of the sample messages
Epoch == 10^6

\* line 164: the delay of the mock reply, in milliseconds
ReplyDelay == 1000

MaerskResults ==
    << "M", "a", "e", "r", "s", "k", "RSQUO", "s", " ", "r", "e", "s", "u",
       "l", "t", "s", " ", "c", "o", "n", "t", "i", "n", "u", "e", "d", " ",
       "t", "o", " ", "i", "m", "p", "r", "o", "v", "e", " ", "y", "e", "a",
       "r", "-", "o", "n", "-", "y", "e", "a", "r" >>

EbitdaIncreased ==
    << "E", "B", "I", "T", "D", "A", " ", "i", "n", "c", "r", "e", "a", "s",
       "e", "d", " ", "t", "o", " ", "U", "S", "D", " ", "2", ".", "3", " ",
       "b", "n", " ", "(", "U", "S", "D", " ", "2", ".", "1", " ", "b", "n",
       ")" >>

GainOnSale ==
    << "G", "a", "i", "n", " ", "o", "n", " ", "s", "a", "l", "e", " ", "o",
       "f", " ", "n", "o", "n", "-", "c", "u", "r", "r", "e", "n", "t", " ",
       "a", "s", "s", "e", "t", "s" >>

SampleCitationText ==
    << "S", "a", "m", "p", "l", "e", " ", "c", "i", "t", "a", "t", "i", "o",
       "n", " ", "t", "e", "x", "t" >>

Citation(i, t, p) == [id |-> i, text |-> t, page |-> p]

NoCitation == Citation(-1, <<>>, -1)

Message(i, c, u, t, cs) ==
    [id |-> i, content |-> c, isUser |-> u, timestamp |-> t, citations |-> cs]

\* lines 34-64.  A content is a sequence of characters; a run of the sample
\* texts that holds no bracket is written as one character.
sampleResponses ==
    << Message(1,
               << "The report shows that EBITDA improvements were driven by operational performance, including volume growth, cost control, and margin improvements across Ocean, Logistics & Services, and Terminals segments ",
                  "[", "1", "]", "[", "2", "]", "." >>,
               FALSE, Epoch,
               << Citation(1, MaerskResults, 3), Citation(2, EbitdaIncreased, 5) >>),
       Message(2,
               << "The gain on sale of non-current assets was USD 25 million in Q2 2025, significantly lower than USD 208 million in Q2 2024, but these amounts are reported separately under EBIT and not included in EBITDA ",
                  "[", "3", "]", "." >>,
               FALSE, Epoch,
               << Citation(3, GainOnSale, 15) >>),
       Message(3,
               << "EBITDA for Q2 2025 increased to USD 2.3 billion from USD 2.1 billion in the prior year, with Ocean, Logistics & Services, and Terminals all contributing to the growth ",
                  "[", "1", "]", "[", "2", "]", "." >>,
               FALSE, Epoch,
               << Citation(1, MaerskResults, 3), Citation(2, EbitdaIncreased, 5) >>) >>

\* lines 154-162: the canned reply, created at time t
Response(t) ==
    Message(t + 1,
            << "This is a sample response with a citation ", "[", "1", "]", "." >>,
            FALSE, t,
            << Citation(1, SampleCitationText, 1) >>)

NoClick == [op |-> "none", citation |-> NoCitation, calls |-> <<>>, notices |-> <<>>]

\* lines 66-78: the state of App as it is created, the theme being the saved or
\* the preferred one
InitApp(theme) ==
    /\ messages = sampleResponses
    /\ inputMessage = <<>>
    /\ darkMode = theme
    /\ currentPage = 1
    /\ timers = <<>>
    /\ now = Epoch
    /\ lastClick = NoClick

-----------------------------------------------------------------------------
(* App.tsx, formatMessageContent *)

Digits == {"0", "1", "2", "3", "4", "5", "6", "7", "8", "9"}

DigitValue(c) ==
    CASE c = "0" -> 0 [] c = "1" -> 1 [] c = "2" -> 2 [] c = "3" -> 3
      [] c = "4" -> 4 [] c = "5" -> 5 [] c = "6" -> 6 [] c = "7" -> 7
      [] c = "8" -> 8 [] c = "9" -> 9

\* the end of the run of digits that starts at position p (p - 1 when none does)
RECURSIVE DigitsEnd(_, _)
DigitsEnd(s, p) ==
    IF p <= Len(s) /\ s[p] \in Digits THEN DigitsEnd(s, p + 1) ELSE p - 1

\* /\[\d+\]/ matched at position p: the position of its last character, or 0
MatchEnd(s, p) ==
    IF p <= Len(s) /\ s[p] = "["
    THEN LET e == DigitsEnd(s, p + 1) IN
         IF e >= p + 1 /\ e < Len(s) /\ s[e + 1] = "]" THEN e + 1 ELSE 0
    ELSE 0

\* line 114, content.split(/(\[\d+\])/g): the text between the matches and, the
\* group capturing them, the matches; from is where the text at hand starts
RECURSIVE SplitFrom(_, _, _)
SplitFrom(s, p, from) ==
    IF p > Len(s) THEN << SubSeq(s, from, Len(s)) >>
    ELSE LET e == MatchEnd(s, p) IN
         IF e > 0
         THEN << SubSeq(s, from, p - 1), SubSeq(s, p, e) >> \o SplitFrom(s, e + 1, e + 1)
         ELSE SplitFrom(s, p + 1, from)

split(s) == SplitFrom(s, 1, 1)

\* line 115, part.match(/\[(\d+)\]/): the first match in the part, as the
\* positions <<first, last>> of its digits, or <<>> (null)
RECURSIVE MatchFrom(_, _)
MatchFrom(part, p) ==
    IF p > Len(part) THEN <<>>
    ELSE IF MatchEnd(part, p) > 0 THEN << p + 1, MatchEnd(part, p) - 1 >>
    ELSE MatchFrom(part, p + 1)

match(part) == MatchFrom(part, 1)

\* line 117, parseInt(digits, 10)
RECURSIVE parseInt(_)
parseInt(digits) ==
    IF digits = <<>> THEN 0
    ELSE 10 * parseInt(SubSeq(digits, 1, Len(digits) - 1)) + DigitValue(digits[Len(digits)])

\* (variant: the id taken for the place in the list)
findByIndex(citations, citationId) ==
    IF citationId \in DOMAIN citations THEN citations[citationId] ELSE NoCitation

\* line 118, citations.find(c => c.id === citationId): the first, or NoCitation
find(citations, citationId) ==
    IF \E i \in DOMAIN citations : citations[i].id = citationId
    THEN citations[CHOOSE i \in DOMAIN citations :
                       /\ citations[i].id = citationId
                       /\ \A j \in 1..(i - 1) : citations[j].id # citationId]
    ELSE NoCitation

\* lines 114-132: what a part is rendered as; a part with a citation is a span
\* that handleCitationClick is bound to, one without is text
RenderPart(part, citations) ==
    LET m == match(part) IN
    IF m # <<>>
    THEN [text |-> part,
          citation |-> find(citations, parseInt(SubSeq(part, m[1], m[2])))]
    ELSE [text |-> part, citation |-> NoCitation]

\* lines 110-133
formatMessageContent(content, citations) ==
    IF citations = <<>>
    THEN << [text |-> content, citation |-> NoCitation] >>
    ELSE LET parts == split(content) IN
         [i \in DOMAIN parts |-> RenderPart(parts[i], citations)]

\* line 217: what the transcript shows, message by message
Rendered == [i \in DOMAIN messages |->
                formatMessageContent(messages[i].content, messages[i].citations)]

-----------------------------------------------------------------------------
(* App.tsx, the handlers *)

Notice(citation) == [text |-> citation.text, page |-> citation.page]

\* (variant: the notice is shown whatever the call returns)
handleCitationClickAlways(citation) ==
    /\ highlightText(citation.text)
    /\ lastClick' = [op |-> "click", citation |-> citation,
                     calls |-> << citation.text >>,
                     notices |-> << [text |-> citation.text, page |-> citation.page] >>]
    /\ UNCHANGED <<messages, inputMessage, darkMode, currentPage, timers, now>>

\* lines 97-107; the ref is attached while the markers can be activated
handleCitationClick(citation) ==
    /\ highlightText(citation.text)
    /\ lastClick' = [op |-> "click", citation |-> citation,
                     calls |-> << citation.text >>,
                     notices |-> IF ~HighlightResult(citation.text).found
                                 THEN << Notice(citation) >> ELSE <<>>]
    /\ UNCHANGED <<messages, inputMessage, darkMode, currentPage, timers, now>>

\* unnamed/part_001, lines 73-86: the revision that keeps the page of a citation
\* that was found; PDFViewer takes no such property and does not read it
handleCitationClickPaged(citation) ==
    /\ highlightText(citation.text)
    /\ lastClick' = [op |-> "click", citation |-> citation,
                     calls |-> << citation.text >>,
                     notices |-> IF HighlightResult(citation.text).found
                                 THEN <<>> ELSE << Notice(citation) >>]
    /\ currentPage' = IF HighlightResult(citation.text).found
                      THEN citation.page ELSE currentPage
    /\ UNCHANGED <<messages, inputMessage, darkMode, timers, now>>

\* the markers of the transcript: <<message, part>> of each part that is a span
Markers ==
    {mp \in UNION {{<<i, k>> : k \in DOMAIN Rendered[i]} : i \in DOMAIN Rendered} :
        Rendered[mp[1]][mp[2]].citation # NoCitation}

\* line 124, onClick of a marker
ClickMarker(mp) == handleCitationClick(Rendered[mp[1]][mp[2]].citation)

ClickMarkerPaged(mp) == handleCitationClickPaged(Rendered[mp[1]][mp[2]].citation)

\* lines 81-83
toggleDarkMode ==
    /\ darkMode' = ~darkMode
    /\ lastEvent' = Event("toggleDarkMode")
    /\ UNCHANGED <<viewerVars, messages, inputMessage, currentPage, timers, now, lastClick>>

-----------------------------------------------------------------------------
(* PDFViewer with every page rendered, and calls of highlightText only *)

InitLocate ==
    /\ doc \in Documents
    /\ numPages = NumPagesOf(doc)
    /\ scale = One
    /\ textLayers = Pages(doc)
    /\ highlighted = {}
    /\ lastCall = NoCall
    /\ zoomLog = Unrecorded
    /\ lastEvent = NoEvent
    /\ InitApp(FALSE)

NextLocate == \E text \in SearchTexts : highlightText(text) /\ UNCHANGED appVars

SpecLocate == InitLocate /\ [][NextLocate]_vars

-----------------------------------------------------------------------------
(* The zoom controls alone, from the viewer as it is created *)

InitZoom ==
    /\ doc = <<>>
    /\ numPages = 0
    /\ scale = One
    /\ textLayers = {}
    /\ highlighted = {}
    /\ lastCall = NoCall
    /\ zoomLog = <<>>
    /\ lastEvent = NoEvent
    /\ InitApp(FALSE)

Recording == zoomLog # Unrecorded /\ Len(zoomLog) < MaxZoomSteps

NextZoom ==
    \/ Recording /\ zoomIn /\ UNCHANGED appVars
    \/ Recording /\ zoomOut /\ UNCHANGED appVars

SpecZoom == InitZoom /\ [][NextZoom]_vars

-----------------------------------------------------------------------------
(* App.tsx, the message input and the mock reply *)

\* what the input field is set to
Inputs == {<<>>, << " ", " " >>, << "x" >>, << " ", "x", " " >>}

\* the milliseconds that pass before an event is handled
Lapses == {0, 1}

Whitespace == {" "}

\* String.prototype.trim
RECURSIVE TrimStart(_)
TrimStart(s) ==
    IF s # <<>> /\ Head(s) \in Whitespace THEN TrimStart(Tail(s)) ELSE s

RECURSIVE TrimEnd(_)
TrimEnd(s) ==
    IF s # <<>> /\ s[Len(s)] \in Whitespace
    THEN TrimEnd(SubSeq(s, 1, Len(s) - 1)) ELSE s

trim(s) == TrimEnd(TrimStart(s))

UserMessages == SelectSeq(messages, LAMBDA m : m.isUser)

\* the replies to the messages sent: the messages after the sample transcript
\* that are not the user's
Replies ==
    SelectSeq(SubSeq(messages, Len(sampleResponses) + 1, Len(messages)),
              LAMBDA m : ~m.isUser)

\* line 239, onChange of the input field
SetInputMessage(value) ==
    /\ inputMessage' = value
    /\ lastEvent' = Event("input")
    /\ UNCHANGED <<viewerVars, messages, darkMode, currentPage, timers, now, lastClick>>

\* lines 148 and 163: prev => [...prev, message]
AppendMessage(prev, message) == Append(prev, message)

\* (variant: a send cancels the reply that is pending)
SetTimeoutCoalesced(pending, t) == << [due |-> t + ReplyDelay] >>

\* line 152: setTimeout(callback, 1000) at time t
SetTimeout(pending, t) == Append(pending, [due |-> t + ReplyDelay])

\* lines 136-165, the form submitted lapse milliseconds from now; the clock is
\* read only when the input is not blank
handleSendMessage(lapse) ==
    /\ Len(UserMessages) < MaxSends
    /\ IF trim(inputMessage) = <<>>
       THEN UNCHANGED <<messages, inputMessage, timers, now>>
       ELSE /\ now' = now + lapse
            /\ messages' = AppendMessage(messages,
                               Message(now', inputMessage, TRUE, now', <<>>))
            /\ inputMessage' = <<>>
            /\ timers' = SetTimeout(timers, now')
    /\ lastEvent' = Event("send")
    /\ UNCHANGED <<viewerVars, darkMode, currentPage, lastClick>>

\* lines 152-164, the callback of the timer that is due first, run lapse
\* milliseconds after it is due or, if that is later, from now
FireTimer(lapse) ==
    /\ timers # <<>>
    /\ LET t == (IF Head(timers).due > now THEN Head(timers).due ELSE now) + lapse IN
       /\ now' = t
       /\ messages' = AppendMessage(messages, Response(t))
    /\ timers' = Tail(timers)
    /\ lastEvent' = Event("reply")
    /\ UNCHANGED <<viewerVars, inputMessage, darkMode, currentPage, lastClick>>

-----------------------------------------------------------------------------
(* The panel alone: the input, the sends and the replies *)

InitChat ==
    /\ doc = <<>>
    /\ numPages = 0
    /\ scale = One
    /\ textLayers = {}
    /\ highlighted = {}
    /\ lastCall = NoCall
    /\ zoomLog = Unrecorded
    /\ lastEvent = NoEvent
    /\ InitApp(FALSE)

NextChat ==
    \/ \E value \in Inputs : SetInputMessage(value)
    \/ \E lapse \in Lapses : handleSendMessage(lapse)
    \/ \E lapse \in Lapses : FireTimer(lapse)

SpecChat == InitChat /\ [][NextChat]_vars

\* the event loop runs the callback of a timer that is due
SpecChatFair == SpecChat /\ WF_vars(\E lapse \in Lapses : FireTimer(lapse))

-----------------------------------------------------------------------------
(* A document standing for /assets/report.pdf, which the repository does not *)
(* hold: one citation of the sample transcript is in a text node of it, in   *)
(* another letter case, one is split over two text nodes, one is not in it.  *)

SampleDoc ==
    << [parentNode |-> <<1, 1>>,
        nodeValue |->
            << "M", "a", "e", "r", "s", "k", "RSQUO", "s", " ", "r", "e", "s",
               "u", "l", "t", "s", " " >>],
       [parentNode |-> <<1, 2>>,
        nodeValue |->
            << "c", "o", "n", "t", "i", "n", "u", "e", "d", " ", "t", "o", " ",
               "i", "m", "p", "r", "o", "v", "e", " ", "y", "e", "a", "r", "-",
               "o", "n", "-", "y", "e", "a", "r", ",", " ", "w", "i", "t", "h" >>],
       [parentNode |-> <<2, 1>>,
        nodeValue |->
            << "E", "b", "i", "t", "d", "a", " ", "i", "n", "c", "r", "e", "a",
               "s", "e", "d", " ", "t", "o", " ", "U", "S", "D", " ", "2", ".",
               "3", " ", "b", "n", " ", "(", "U", "S", "D", " ", "2", ".", "1",
               " ", "b", "n", ")", " ", "i", "n", " ", "Q", "2" >>] >>

\* the same report with each citation of the sample transcript in one text
\* node, a page apart
SampleDocWhole ==
    << [parentNode |-> <<1, 1>>, nodeValue |-> MaerskResults \o << ",", " " >>],
       [parentNode |-> <<2, 1>>, nodeValue |-> SampleDoc[3].nodeValue],
       [parentNode |-> <<3, 1>>, nodeValue |-> << "(" >> \o GainOnSale \o << ")" >>] >>

SampleDocs == {SampleDoc, SampleDocWhole}

\* PDFViewer as it is created: the document is not loaded yet
InitViewer(d) ==
    /\ doc = d
    /\ numPages = 0
    /\ scale = One
    /\ textLayers = {}
    /\ highlighted = {}
    /\ lastCall = NoCall
    /\ zoomLog = Unrecorded
    /\ lastEvent = NoEvent

-----------------------------------------------------------------------------
(* The citation markers of the sample transcript, in both revisions of       *)
(* App.tsx, over the document as it loads                                    *)

InitPanel == (\E d \in SampleDocs : InitViewer(d)) /\ InitApp(FALSE)

NextPanel ==
    \/ onDocumentLoadSuccess /\ UNCHANGED appVars
    \/ \E p \in Pages(doc) : RenderTextLayer(p) /\ UNCHANGED appVars
    \/ \E mp \in Markers : ClickMarker(mp)
    \/ \E mp \in Markers : ClickMarkerPaged(mp)
    \/ toggleDarkMode

SpecPanel == InitPanel /\ [][NextPanel]_vars

-----------------------------------------------------------------------------
(* formatMessageContent on every content and list of citations, and the      *)
(* markers it renders, beside the document loaded and rendered               *)

ContentChars == {"[", "]", "1", "2", "g"}

Contents == UNION {[1..n -> ContentChars] : n \in 0..MaxContentLen}

CitationLists ==
    LET c1 == Citation(1, EbitdaIncreased, 5)
        c2 == Citation(2, GainOnSale, 15)
    IN {<<>>, <<c1>>, <<c2, c1>>}

InitRender ==
    /\ doc = SampleDoc
    /\ numPages = NumPagesOf(doc)
    /\ scale = One
    /\ textLayers = Pages(doc)
    /\ highlighted = {}
    /\ lastCall = NoCall
    /\ zoomLog = Unrecorded
    /\ lastEvent = NoEvent
    /\ \E content \in Contents, citations \in CitationLists :
          messages = << Message(1, content, FALSE, Epoch, citations) >>
    /\ inputMessage = <<>>
    /\ darkMode = FALSE
    /\ currentPage = 1
    /\ timers = <<>>
    /\ now = Epoch
    /\ lastClick = NoClick

NextRender == \E mp \in Markers : ClickMarker(mp)

SpecRender == InitRender /\ [][NextRender]_vars

-----------------------------------------------------------------------------
(* The viewer zoomed and searched while the panel is used: a one-page        *)
(* document, the calls of highlightText made directly                        *)

ViewDoc ==
    << [parentNode |-> <<1, 1>>, nodeValue |-> << "a" >>],
       [parentNode |-> <<1, 2>>, nodeValue |-> << "A", "a" >>] >>

ViewTexts == {<< "a" >>, << "a", "a" >>}

InitView == InitViewer(ViewDoc) /\ InitApp(FALSE)

NextView ==
    \/ onDocumentLoadSuccess /\ UNCHANGED appVars
    \/ \E p \in Pages(doc) : RenderTextLayer(p) /\ UNCHANGED appVars
    \/ zoomIn /\ UNCHANGED appVars
    \/ zoomOut /\ UNCHANGED appVars
    \/ \E text \in ViewTexts : highlightText(text) /\ UNCHANGED appVars
    \/ toggleDarkMode
    \/ SetInputMessage(<< "x" >>)
    \/ handleSendMessage(0)
    \/ FireTimer(0)

SpecView == InitView /\ [][NextView]_vars

-----------------------------------------------------------------------------
(* The vocabulary of the claims about highlightText *)

\* the letter a character is a case form of
Fold(c) == IF c \in {"SIGMA", "sigma", "fsigma"} THEN "sigma" ELSE LowerOf(c)

SameUpToCase(s, t) ==
    /\ Len(s) = Len(t)
    /\ \A i \in 1..Len(s) : Fold(s[i]) = Fold(t[i])

Windows(hay, n) == {SubSeq(hay, i + 1, i + n) : i \in 0..(Len(hay) - n)}

\* S occurs verbatim in the text
OccursVerbatim(hay, S) == S \in Windows(hay, Len(S))

\* S occurs in the text up to letter case
OccursIgnoringCase(hay, S) == \E w \in Windows(hay, Len(S)) : SameUpToCase(w, S)

NodeIndices == 1..Len(TextNodes)

\* the parent elements of the text nodes whose text contains S up to letter case
ContainingElements(S) ==
    {TextNodes[i].parentNode :
        i \in {j \in NodeIndices : OccursIgnoringCase(TextNodes[j].nodeValue, S)}}

\* the last call was highlightText with a non-empty text
Located == lastCall.op = "highlightText" /\ lastCall.text \notin {<<>>, Absent}

\* S occurs up to letter case in the text of two adjacent text nodes taken
\* together, and in no single text node
SplitAcrossNodes(S) ==
    /\ ContainingElements(S) = {}
    /\ \E i \in NodeIndices :
          /\ i < Len(TextNodes)
          /\ OccursIgnoringCase(TextNodes[i].nodeValue \o TextNodes[i + 1].nodeValue, S)

-----------------------------------------------------------------------------
(* The claims *)

\* C1 (as claimed): when S is non-empty and occurs verbatim in a text node,
\* highlightText(S) returns found and marks exactly the elements that hold a
\* text node containing S.
C1_Original ==
    (/\ Located
     /\ \E i \in NodeIndices : OccursVerbatim(TextNodes[i].nodeValue, lastCall.text))
    => (/\ lastCall.found
        /\ highlighted = ContainingElements(lastCall.text))

\* C2: when the non-empty S occurs in no single text node, not even up to letter
\* case, highlightText(S) returns not found and leaves no element highlighted,
\* whatever was highlighted before and also when S occurs across adjacent nodes.
C2_NotFoundMarksNothing ==
    (Located /\ ContainingElements(lastCall.text) = {})
    => (~lastCall.found /\ highlighted = {})

C2_Witness ==
    /\ Located
    /\ SplitAcrossNodes(lastCall.text)
    /\ lastCall.before # {}
    /\ ~lastCall.found

\* C3: after a call with a non-empty text an element is highlighted only if it
\* holds a text node matching that call's text: nothing highlighted by an
\* earlier call is left over.
C3_NoLeftover ==
    Located => highlighted \subseteq ContainingElements(lastCall.text)

C3_Witness ==
    /\ Located
    /\ lastCall.found
    /\ lastCall.before # {}
    /\ lastCall.before \cap highlighted = {}

\* C4: a call with an empty or absent text returns not found, leaves the
\* highlighted elements as they were and scrolls nowhere.
C4_EmptyIsNoOp ==
    (lastCall.op = "highlightText" /\ lastCall.text \in {<<>>, Absent})
    => (/\ ~lastCall.found
        /\ highlighted = lastCall.before
        /\ lastCall.scrolledTo = NoElement)

C4_Witness ==
    /\ lastCall.op = "highlightText"
    /\ lastCall.text = <<>>
    /\ lastCall.before # {}
    /\ highlighted = lastCall.before

\* C5 (as claimed): the outcome of highlightText(S) is that of every text that
\* differs from S in letter case only, and every text node containing S up to
\* letter case is matched.
C5_Original ==
    Located
    => (/\ \A T \in StringsOfLen(Len(lastCall.text)) :
              SameUpToCase(T, lastCall.text)
              => (/\ HighlightResult(T).found = lastCall.found
                  /\ HighlightResult(T).hl = highlighted)
        /\ lastCall.found = (ContainingElements(lastCall.text) # {})
        /\ ContainingElements(lastCall.text) \subseteq highlighted)

\* the zoom actions so far were n actions of one kind
Consecutive(action, n) == zoomLog = [i \in 1..n |-> action]

\* the double 1.6
OnePointSix == Dbl(429496729, 161061280)

AbsDiff(x, y) == IF Less(x, y) THEN ExactSub(y, x) ELSE ExactSub(x, y)

\* x and y differ by at most 2^-52, the rounding of one operation on doubles
\* below 2
WithinRounding(x, y) == AbsDiff(x, y).hi = 0 /\ AbsDiff(x, y).lo <= 16

InRange(x) == ~Less(x, Half) /\ ~Less(Two, x)

\* C6 (as claimed): six consecutive zoom-in actions from the initial scale 1.0
\* yield the scale 2.0.
C6_Original == Consecutive("in", 6) => scale = Two

\* C6 (amended): six consecutive zoom-in actions from 1.0 yield 1.6 (the double
\* 1.6000000000000005, two units in the last place above 1.6), below the
\* maximum; consecutive zoom-in actions reach the clamped maximum 2.0 with the
\* tenth and not before.
C6_SixZoomInsYieldOnePointSix ==
    /\ Consecutive("in", 6) => (ExactSub(scale, OnePointSix) = Dbl(0, 32) /\ Less(scale, Two))
    /\ \A n \in 0..MaxZoomSteps : Consecutive("in", n) => (scale = Two <=> n >= 10)

C6_Witness == Consecutive("in", 6) /\ Less(OnePointSix, scale)

\* C7: the scale stays within [0.5, 2.0]; a zoom action moves it by 0.1 in its
\* direction (in double arithmetic: the step differs from 0.1 by at most 2^-52)
\* unless that would leave the range, and then sets it to the bound; six
\* consecutive zoom-out actions from 1.0 yield 0.5.
C7_ZoomIsClampedStep ==
    /\ [](InRange(scale))
    /\ [](Consecutive("out", 6) => scale = Half)
    /\ [][/\ zoomLog' = Append(zoomLog, "in")
             => IF Less(Two, ExactAdd(scale, Tenth)) THEN scale' = Two
                ELSE /\ Less(scale, scale')
                     /\ WithinRounding(ExactSub(scale', scale), Tenth)
          /\ zoomLog' = Append(zoomLog, "out")
             => IF Less(ExactSub(scale, Tenth), Half) THEN scale' = Half
                ELSE /\ Less(scale', scale)
                     /\ WithinRounding(ExactSub(scale, scale'), Tenth)]_vars

C7_Witness == Consecutive("out", 6) /\ scale = Half

-----------------------------------------------------------------------------
(* C8 *)

Clicked == lastClick.op = "click"

\* a step that is the activation of a marker
ClickStep ==
    /\ lastClick'.op = "click"
    /\ <<lastClick, lastCall, highlighted, currentPage>>'
           # <<lastClick, lastCall, highlighted, currentPage>>

-----------------------------------------------------------------------------
(* C9 *)

RECURSIVE Concat(_)
Concat(parts) ==
    IF parts = <<>> THEN <<>> ELSE Head(parts).text \o Concat(Tail(parts))

\* where in the content the k-th part starts
RECURSIVE PartStart(_, _)
PartStart(parts, k) ==
    IF k = 1 THEN 1 ELSE PartStart(parts, k - 1) + Len(parts[k - 1].text)

\* s is [<integer>]
IsToken(s) ==
    /\ Len(s) >= 3
    /\ s[1] = "["
    /\ s[Len(s)] = "]"
    /\ \A i \in 2..(Len(s) - 1) : s[i] \in Digits

\* the tokens of the content, as <<first, last>> positions
TokenSpans(content) ==
    {span \in (1..Len(content)) \X (1..Len(content)) :
        span[1] < span[2] /\ IsToken(SubSeq(content, span[1], span[2]))}

RECURSIVE Decimal(_, _)
Decimal(digits, acc) ==
    IF digits = <<>> THEN acc
    ELSE Decimal(Tail(digits), 10 * acc + DigitValue(Head(digits)))

TokenValue(token) == Decimal(SubSeq(token, 2, Len(token) - 1), 0)

IsMarker(part) == part.citation # NoCitation

\* C9: of a message with citations, every token [<integer>] of the content is
\* a part of its own; the part is a marker bound to a citation of the message
\* with that id when there is one, and text when there is none; no other part
\* is a marker; a message without citations is rendered as its content, one
\* part that is text; the parts in order make up the content.
C9_MarkersAreTheCitedTokens ==
    \A m \in DOMAIN messages :
        LET content == messages[m].content
            citations == messages[m].citations
            parts == Rendered[m]
        IN /\ Concat(parts) = content
           /\ citations = <<>> =>
                 /\ Len(parts) = 1
                 /\ ~IsMarker(parts[1])
           /\ citations # <<>> =>
                 \A span \in TokenSpans(content) :
                    \E k \in DOMAIN parts :
                       /\ PartStart(parts, k) = span[1]
                       /\ Len(parts[k].text) = span[2] - span[1] + 1
                       /\ IF \E c \in Range(citations) : c.id = TokenValue(parts[k].text)
                          THEN /\ parts[k].citation \in Range(citations)
                               /\ parts[k].citation.id = TokenValue(parts[k].text)
                          ELSE ~IsMarker(parts[k])
           /\ \A k \in DOMAIN parts :
                 IsMarker(parts[k]) =>
                    /\ IsToken(parts[k].text)
                    /\ <<PartStart(parts, k), PartStart(parts, k) + Len(parts[k].text) - 1>>
                           \in TokenSpans(content)

\* "[1][2]" with citations 2 and 1: two markers side by side, each bound to its
\* own citation, and the second was activated
C9_Witness ==
    /\ Len(messages) = 1
    /\ Len(Rendered[1]) >= 4
    /\ \E k \in DOMAIN Rendered[1] :
          /\ k + 2 \in DOMAIN Rendered[1]
          /\ Rendered[1][k + 1].text = <<>>
          /\ IsMarker(Rendered[1][k])
          /\ IsMarker(Rendered[1][k + 2])
          /\ Rendered[1][k].citation.id = 1
          /\ Rendered[1][k + 2].citation.id = 2
          /\ lastClick.citation = Rendered[1][k + 2].citation

-----------------------------------------------------------------------------
(* C10 *)

IsPrefix(s, t) == Len(s) <= Len(t) /\ SubSeq(t, 1, Len(s)) = s

UserIndices == {i \in DOMAIN messages : messages[i].isUser}

ReplyIndices ==
    {i \in DOMAIN messages : i > Len(sampleResponses) /\ ~messages[i].isUser}

\* the k-th of a set of positions
Kth(S, k) == CHOOSE i \in S : Cardinality({j \in S : j <= i}) = k

Canned == Response(Epoch)

\* C10: the transcript only grows, a message at a time and at its end; a send
\* of input that is not blank appends the user's message in the step of the
\* send; the replies appended and the replies still to come are as many as the
\* messages sent, the k-th reply is the canned one and comes after the k-th
\* message sent, a second or more later; every message sent is replied to in
\* the end, whatever the order of sends and replies.
C10_AppendOnlyAnsweredOnce ==
    /\ [](/\ Cardinality(ReplyIndices) + Len(timers) = Cardinality(UserIndices)
          /\ \A k \in 1..Cardinality(ReplyIndices) :
                LET r == messages[Kth(ReplyIndices, k)]
                    u == messages[Kth(UserIndices, k)]
                IN /\ Kth(ReplyIndices, k) > Kth(UserIndices, k)
                   /\ r.content = Canned.content
                   /\ r.citations = Canned.citations
                   /\ r.timestamp >= u.timestamp + ReplyDelay)
    /\ [][/\ IsPrefix(messages, messages')
          /\ Len(messages') <= Len(messages) + 1
          /\ Len(timers') > Len(timers) =>
                /\ trim(inputMessage) # <<>>
                /\ Len(messages') = Len(messages) + 1
                /\ messages'[Len(messages')].isUser
                /\ messages'[Len(messages')].content = inputMessage
          /\ (trim(inputMessage) # <<>> /\ inputMessage' = <<>> /\ now' # now)
                => Len(timers') = Len(timers) + 1]_vars
    /\ \A k \in 1..MaxSends :
          (Cardinality(UserIndices) >= k) ~> (Cardinality(ReplyIndices) >= k)

\* two messages were sent before the first reply, and both replies are there
C10_Witness ==
    /\ Cardinality(ReplyIndices) = 2
    /\ timers = <<>>
    /\ messages[Len(sampleResponses) + 1].isUser
    /\ messages[Len(sampleResponses) + 2].isUser

-----------------------------------------------------------------------------
(* C11 *)

\* C11 (as claimed): no two messages of the transcript have the same id,
\* whatever the sends, the replies and the times they happen at.
C11_Original ==
    \A i, j \in DOMAIN messages : i # j => messages[i].id # messages[j].id

-----------------------------------------------------------------------------
(* C12 *)

ZoomKinds == {"in", "out"}

\* the handlers that are neither a zoom action nor a call of highlightText
OtherKinds == {"load", "render", "toggleDarkMode", "input", "send", "reply"}

-----------------------------------------------------------------------------
(* C13 *)

\* the places in scan order of the text nodes whose parent element is marked
MarkedIndices == {i \in NodeIndices : TextNodes[i].parentNode \in highlighted}

\* C13: a call scrolls if and only if it returns found, and then to one
\* element: the parent of the first text node in scan order that the call
\* matched, which holds the text searched up to letter case, is on the lowest
\* page that has a marked element and comes before every other marked element.
C13_ScrollsToFirstMatch ==
    lastCall.op = "highlightText"
    => /\ lastCall.found <=> lastCall.scrolledTo # NoElement
       /\ lastCall.found =>
             /\ MarkedIndices # {}
             /\ \E first \in MarkedIndices :
                   /\ \A i \in MarkedIndices : first <= i
                   /\ lastCall.scrolledTo = TextNodes[first].parentNode
             /\ \A e \in highlighted : lastCall.scrolledTo[1] <= e[1]
             /\ \E i \in NodeIndices :
                   /\ TextNodes[i].parentNode = lastCall.scrolledTo
                   /\ OccursIgnoringCase(TextNodes[i].nodeValue, lastCall.text)

\* the text was found in two elements, the second on a later page or later in
\* the page, and the call scrolled to the first
C13_Witness ==
    /\ Located
    /\ lastCall.found
    /\ Cardinality(highlighted) = 2
    /\ lastCall.scrolledTo = TextNodes[1].parentNode

=============================================================================
